---------------------------- MODULE Spec2Model ----------------------------
(***************************************************************************)
(* Model of the recipe compiler of sstool (src/sstool/main.py):            *)
(* validate_recipe_config, Mirror, Recipe.generate_package_specs and       *)
(* Recipe.generate_compiler_specs.                                         *)
(*                                                                         *)
(* Python str values are TLA+ strings, handled character by character      *)
(* with Len, Head, Tail, SubSeq and \o.  Other Python values are tagged    *)
(* records (PyNone, PyStr, PyBool, PyList); a dict is a function whose     *)
(* DOMAIN is the set of keys present; a dict iterated in insertion order   *)
(* (the package sets) is a sequence of [name, config] records.             *)
(***************************************************************************)
EXTENDS Integers, Sequences, FiniteSets, TLC

VARIABLES
    raw,            \* the raw package description handed to generate_package_specs (mutated in place)
    rawIn,          \* history: the value of raw when the last call was entered
    packages,       \* self.packages: unbound, or a reference to the raw object
    rawCompilers,   \* the raw compiler description handed to generate_compiler_specs
    compilers,      \* self.compilers
    rawConfig,      \* the config mapping handed to validate_recipe_config
    files,          \* the paths for which os.path.isfile is true
    config,         \* the mapping validate_recipe_config returned
    mirrorConfig,   \* Mirror.__init__'s config argument
    mirrorSource,   \* Mirror.__init__'s source argument
    mirror,         \* the Mirror object: its _source and _key
    exc,            \* the exception the last call raised
    calls,          \* how many times the operation has been called on the same raw object
    returned,       \* history: what each call left behind, as seen when it returned
    args,           \* the command line arguments: args.recipe and args.build
    dirs,           \* the paths for which os.path.isdir is true
    modules,        \* self.modules
    pc,             \* the statement Recipe.__init__ has reached
    recipe          \* main's variable recipe: unbound until Recipe(args) returns

vars == <<raw, rawIn, packages, rawCompilers, compilers, rawConfig, files, config,
          mirrorConfig, mirrorSource, mirror, exc, calls, returned,
          args, dirs, modules, pc, recipe>>

\* the variables only Recipe.__init__ uses
initVars == <<args, dirs, modules, pc, recipe>>

---------------------------------------------------------------------------
(* Bounds of the model *)

\* the largest number of package sets in a batch
MaxSets == 3
\* how many times an operation is called on the same raw object
MaxCalls == 2
\* the largest number of specs declared for the llvm stage
MaxLlvmSpecs == 2

---------------------------------------------------------------------------
(* Python values *)

PyNone == [type |-> "NoneType"]
PyStr(s) == [type |-> "str", val |-> s]
PyBool(b) == [type |-> "bool", val |-> b]
PyList(l) == [type |-> "list", val |-> l]
PyDict(d) == [type |-> "dict", val |-> d]

\* a key that the mapping does not hold (an input marker, never a stored value)
Absent == [type |-> "<absent>"]

\* the mapping with the keys of d whose value is not Absent
Present(d) == [k \in {k \in DOMAIN d : d[k] # Absent} |-> d[k]]

\* Python truth value testing: None, False, "", [] and {} are false
Truthy(v) ==
    CASE v.type = "NoneType" -> FALSE
      [] v.type = "bool" -> v.val
      [] v.type = "str" -> v.val # ""
      [] v.type = "list" -> v.val # <<>>
      [] v.type = "dict" -> DOMAIN v.val # {}

NoExc == [type |-> "", msg |-> ""]
Raise(t, m) == [type |-> t, msg |-> m]

---------------------------------------------------------------------------
(* Python str methods *)

IsSpace(c) == c \in {" ", "\t", "\n"}

charAt(s, i) == SubSeq(s, i, i)

RECURSIVE lstrip(_)
lstrip(s) == IF s # "" /\ IsSpace(Head(s)) THEN lstrip(Tail(s)) ELSE s

RECURSIVE rstrip(_)
rstrip(s) ==
    IF s # "" /\ IsSpace(charAt(s, Len(s)))
    THEN rstrip(SubSeq(s, 1, Len(s) - 1))
    ELSE s

strip(s) == rstrip(lstrip(s))

startswith(s, p) == Len(s) >= Len(p) /\ SubSeq(s, 1, Len(p)) = p

endswith(s, p) == Len(s) >= Len(p) /\ SubSeq(s, Len(s) - Len(p) + 1, Len(s)) = p

\* the substring test: sub in s
contains(s, sub) ==
    \E i \in 1..(Len(s) - Len(sub) + 1) : SubSeq(s, i, i + Len(sub) - 1) = sub

\* str.find, 1-based: the first position of character c in s, 0 when there is none
find(s, c) ==
    IF \E i \in 1..Len(s) : charAt(s, i) = c
    THEN CHOOSE i \in 1..Len(s) :
            charAt(s, i) = c /\ \A j \in 1..(i - 1) : charAt(s, j) # c
    ELSE 0

---------------------------------------------------------------------------
(* Recipe.generate_package_specs *)

valid_mpi_specs ==
    ("cray-mpich-binary" :> <<PyNone, PyNone>>) @@
    ("mpich" :> <<PyStr("4.1rc2"), PyStr("device=ch4 netmod=ofi +slurm")>>) @@
    ("mvapich2" :> <<PyStr("3.0a"),
                     PyStr("+xpmem fabrics=ch4ofi ch4_max_vcis=4 process_managers=slurm")>>)

\* the first loop: fill in the missing fields of one package set
AmendConfig(cfg) ==
    [k \in DOMAIN cfg \cup {"specs", "mpi", "gpu"} |->
        CASE k = "specs" ->
                IF "specs" \notin DOMAIN cfg \/ cfg.specs = PyNone
                THEN PyList(<<>>) ELSE cfg.specs
          [] k = "mpi" -> IF "mpi" \notin DOMAIN cfg THEN PyNone ELSE cfg.mpi
          [] k = "gpu" -> IF "gpu" \notin DOMAIN cfg THEN PyNone ELSE cfg.gpu
          [] OTHER -> cfg[k]]

AmendAll(p) == [i \in 1..Len(p) |-> [p[i] EXCEPT !.config = AmendConfig(@)]]

\* mpi.strip().split(sep='@', maxsplit=1), with the ValueError fallback
SplitMpi(mpi) ==
    LET s == strip(mpi)
        i == find(s, "@")
    IN  IF i = 0
        THEN [mpi_impl |-> s, mpi_ver |-> PyNone]
        ELSE [mpi_impl |-> SubSeq(s, 1, i - 1),
              mpi_ver |-> PyStr(SubSeq(s, i + 1, Len(s)))]

\* a slip: the table default wins over the version the user gave
VersionOpt_DefaultFirst(mpi_ver, default_ver) ==
    IF Truthy(default_ver)
    THEN "@" \o default_ver.val
    ELSE IF Truthy(mpi_ver) THEN "@" \o mpi_ver.val ELSE ""

VersionOpt(mpi_ver, default_ver) ==
    IF Truthy(mpi_ver)
    THEN "@" \o mpi_ver.val
    ELSE IF Truthy(default_ver) THEN "@" \o default_ver.val ELSE ""

\* a slip: the composed string is not stripped
ComposeSpec_NoStrip(mpi_impl, version_opt, options) ==
    mpi_impl \o version_opt \o " " \o (IF Truthy(options) THEN options.val ELSE "")

ComposeSpec(mpi_impl, version_opt, options) ==
    strip(mpi_impl \o version_opt \o " " \o (IF Truthy(options) THEN options.val ELSE ""))

\* a slip: the cray-mpich-binary exemption is forgotten
CudaArch_NoExemption(spec, gpu, mpi_impl) ==
    IF Truthy(gpu) THEN spec \o " cuda_arch=80" ELSE spec

CudaArch(spec, gpu, mpi_impl) ==
    IF Truthy(gpu) /\ mpi_impl # "cray-mpich-binary"
    THEN spec \o " cuda_arch=80"
    ELSE spec

\* the spec appended for a package set whose implementation is in the table
MpiSpec(mpi_impl, mpi_ver, gpu) ==
    LET default_ver == valid_mpi_specs[mpi_impl][1]
        options == valid_mpi_specs[mpi_impl][2]
    IN  CudaArch(ComposeSpec(mpi_impl, VersionOpt(mpi_ver, default_ver), options),
                 gpu, mpi_impl)

\* a slip: the spec is inserted in front of the declared specs
AppendSpec_Front(p, i, spec) ==
    [p EXCEPT ![i].config.specs = PyList(<<spec>> \o @.val)]

\* what packages[name]["specs"].append(spec) does to the batch
AppendSpec(p, i, spec) ==
    [p EXCEPT ![i].config.specs = PyList(Append(@.val, spec))]

\* the second loop, from package set i on: the batch as the loop leaves it, and
\* the exception that ended it
RECURSIVE ExpandMpi(_, _)
ExpandMpi(p, i) ==
    IF i > Len(p)
    THEN [packages |-> p, exc |-> NoExc]
    ELSE LET cfg == p[i].config IN
         IF ~Truthy(cfg.mpi)
         THEN ExpandMpi(p, i + 1)
         ELSE LET parts == SplitMpi(cfg.mpi.val) IN
              IF parts.mpi_impl \in DOMAIN valid_mpi_specs
              THEN ExpandMpi(
                      AppendSpec(p, i, MpiSpec(parts.mpi_impl, parts.mpi_ver, cfg.gpu)),
                      i + 1)
              ELSE [packages |-> p,
                    exc |-> Raise("Exception", "Unsupported mpi: " \o parts.mpi_impl)]

\* self.packages: the raw object once it has been assigned
Unbound == [bound |-> FALSE]
RefRaw == [bound |-> TRUE]

generate_package_specs ==
    /\ calls < MaxCalls
    /\ LET r == ExpandMpi(AmendAll(raw), 1) IN
        /\ rawIn' = raw
        /\ raw' = r.packages
        /\ exc' = r.exc
        /\ packages' = IF r.exc = NoExc THEN RefRaw ELSE packages
        /\ returned' = Append(returned, [exc |-> r.exc, value |-> r.packages])
    /\ calls' = calls + 1
    /\ UNCHANGED <<rawCompilers, compilers, rawConfig, files, config,
                   mirrorConfig, mirrorSource, mirror>>
    /\ UNCHANGED initVars

(* The raw package descriptions the calls are made on *)

MpiNames == {"cray-mpich-binary", "mpich", "mvapich2", "openmpi"}
MpiVersions == {"", "3.4.3", "8.1.18"}
Pads == {"", " "}

\* the mpi strings that name implementation n: alone, or followed by @ and a
\* version, with or without whitespace around
Unversioned(n) == {lp \o n \o rp : lp \in Pads, rp \in Pads}
Versioned(n, v) == {lp \o n \o "@" \o v \o rp : lp \in Pads, rp \in Pads}

MpiStrings ==
    UNION {Unversioned(n) : n \in MpiNames}
    \cup UNION {Versioned(n, v) : n \in MpiNames, v \in MpiVersions}
    \cup {"", " "}

MpiInputs == {Absent, PyNone} \cup {PyStr(s) : s \in MpiStrings}
GpuInputs == {Absent, PyNone, PyBool(FALSE), PyStr("nvidia")}
SpecsInputs == {Absent, PyNone, PyList(<<>>), PyList(<<"hdf5", "fftw">>)}

PackageSets(specsIn, mpiIn, gpuIn) ==
    {Present([specs |-> s, mpi |-> m, gpu |-> g]) :
        s \in specsIn, m \in mpiIn, g \in gpuIn}

SetName(i) == <<"tools", "gcc-env", "nvhpc-env", "extra">>[i]

Batch(cfgs) == [i \in 1..Len(cfgs) |-> [name |-> SetName(i), config |-> cfgs[i]]]

\* the package sets that batches of several sets are drawn from
BatchSets ==
    PackageSets({Absent, PyList(<<"hdf5", "fftw">>)},
                {PyNone, PyStr("mpich"), PyStr("mvapich2@3.4.3"), PyStr("openmpi")},
                {Absent, PyStr("nvidia")})

\* r is a raw package description: any single package set, or a batch of up to
\* MaxSets sets drawn from BatchSets
RawPackages(r) ==
    \/ \E c \in PackageSets(SpecsInputs, MpiInputs, GpuInputs) : r = Batch(<<c>>)
    \/ \E n \in 0..MaxSets : \E cs \in [1..n -> BatchSets] : r = Batch(cs)

---------------------------------------------------------------------------
(* Recipe.generate_compiler_specs *)

external ==
    <<"perl", "m4", "autoconf", "automake", "libtool", "gawk", "python", "texinfo", "gawk">>

\* the "packages" entry of the bootstrap and gcc stages, which differ in the gcc variant
ToolchainPackages(gccVariant) ==
    [external |-> external,
     variants |-> [gcc |-> gccVariant,
                   mpc |-> "[libs=static]",
                   gmp |-> "[libs=static]",
                   mpfr |-> "[libs=static]",
                   zstd |-> "[libs=static]",
                   zlib |-> "[~shared]"]]

\* a slip: the auxiliary squashfs spec is left out
BootstrapStage_NoSquashfs(bootstrap_spec) ==
    [packages |-> ToolchainPackages("[build_type=Release ~bootstrap +strip]"),
     specs |-> <<bootstrap_spec \o " languages=c,c++">>]

BootstrapStage(bootstrap_spec) ==
    [packages |-> ToolchainPackages("[build_type=Release ~bootstrap +strip]"),
     specs |-> <<bootstrap_spec \o " languages=c,c++", "squashfs default_compression=zstd">>]

\* a slip: gcc requires the bootstrap spec with its languages suffix
GccStage_RequiresResolved(gccSpecs, bootstrap_spec) ==
    [packages |-> ToolchainPackages("[build_type=Release +profiled +strip]"),
     specs |-> gccSpecs,
     requires |-> bootstrap_spec \o " languages=c,c++"]

GccStage(gccSpecs, bootstrap_spec) ==
    [packages |-> ToolchainPackages("[build_type=Release +profiled +strip]"),
     specs |-> gccSpecs,
     requires |-> bootstrap_spec]

\* what one iteration of the loop over raw["llvm"]["specs"] appends
LlvmAppended(spec) ==
    (IF startswith(spec, "nvhpc") THEN <<spec \o "~mpi~blas~lapack">> ELSE <<>>)
    \o (IF startswith(spec, "llvm")
        THEN <<spec \o " +clang targets=x86 ~gold ^ninja@kitware">>
        ELSE <<>>)

RECURSIVE LlvmSpecs(_)
LlvmSpecs(specs) ==
    IF specs = <<>> THEN <<>> ELSE LlvmAppended(Head(specs)) \o LlvmSpecs(Tail(specs))

LlvmStage(llvm) ==
    [packages |-> FALSE, specs |-> LlvmSpecs(llvm.specs), requires |-> llvm.requires]

\* the local compilers mapping and the exception that ended the call
CompilerSpecs(r) ==
    IF "bootstrap" \notin DOMAIN r
    THEN [compilers |-> <<>>, exc |-> Raise("KeyError", "'bootstrap'")]
    ELSE IF r.bootstrap.specs = <<>>
    THEN [compilers |-> <<>>, exc |-> Raise("IndexError", "list index out of range")]
    ELSE LET bootstrap_spec == r.bootstrap.specs[1]
             bootstrap == "bootstrap" :> BootstrapStage(bootstrap_spec)
         IN
         IF "gcc" \notin DOMAIN r
         THEN [compilers |-> bootstrap, exc |-> Raise("KeyError", "'gcc'")]
         ELSE LET gcc == bootstrap @@ ("gcc" :> GccStage(r.gcc.specs, bootstrap_spec)) IN
              IF "llvm" \notin DOMAIN r
              THEN [compilers |-> gcc, exc |-> NoExc]
              ELSE IF "requires" \notin DOMAIN r.llvm
              THEN [compilers |-> gcc, exc |-> Raise("KeyError", "'requires'")]
              ELSE [compilers |-> gcc @@ ("llvm" :> LlvmStage(r.llvm)), exc |-> NoExc]

generate_compiler_specs ==
    /\ calls < MaxCalls
    /\ LET r == CompilerSpecs(rawCompilers) IN
        /\ exc' = r.exc
        /\ compilers' = IF r.exc = NoExc THEN r.compilers ELSE compilers
        /\ returned' = Append(returned,
                              [exc |-> r.exc,
                               value |-> IF r.exc = NoExc THEN r.compilers ELSE compilers])
    /\ calls' = calls + 1
    /\ UNCHANGED <<raw, rawIn, packages, rawCompilers, rawConfig, files, config,
                   mirrorConfig, mirrorSource, mirror>>
    /\ UNCHANGED initVars

(* The raw compiler descriptions the calls are made on *)

LlvmSpecStrings == {"nvhpc@21.9", "llvm@14.0.6", "clang@14", "nv"}

SeqsUpTo(S, n) == UNION {[1..k -> S] : k \in 0..n}

BootstrapInputs ==
    {Absent, [specs |-> <<>>], [specs |-> <<"gcc@11">>], [specs |-> <<"gcc@11.3.0", "gcc@12">>]}
GccInputs == {Absent, [specs |-> <<"gcc@11">>], [specs |-> <<"gcc@11", "gcc@12">>]}
LlvmInputs ==
    {Absent}
    \cup {[specs |-> l] : l \in SeqsUpTo(LlvmSpecStrings, MaxLlvmSpecs)}
    \cup {[specs |-> l, requires |-> "gcc@11"] :
            l \in SeqsUpTo(LlvmSpecStrings, MaxLlvmSpecs)}

RawCompilers ==
    {Present([bootstrap |-> b, gcc |-> g, llvm |-> l]) :
        b \in BootstrapInputs, g \in GccInputs, l \in LlvmInputs}

---------------------------------------------------------------------------
(* validate_recipe_config *)

\* the two wordings CPython gives the read of the unassigned local p
UnboundLocalWordings ==
    {"local variable 'p' referenced before assignment",
     "cannot access local variable 'p' where it is not associated with a value"}

\* the config mapping as the call leaves it, and the exception it raises
ValidateRecipeConfig(cfg, isfile, wording) ==
    LET hasMirror == "mirror" \in DOMAIN cfg
        c1 == IF hasMirror THEN cfg ELSE cfg @@ ("mirror" :> PyNone)
    IN
    IF hasMirror /\ cfg.mirror = PyNone
    THEN [config |-> cfg,
          exc |-> Raise("TypeError", "argument of type 'NoneType' is not iterable")]
    ELSE LET hasKey == hasMirror /\ "key" \in DOMAIN cfg.mirror.val
             p == IF hasKey THEN cfg.mirror.val.key.val ELSE ""
         IN
         IF hasKey /\ p \notin isfile
         THEN [config |-> cfg,
               exc |-> Raise("FileNotFoundError",
                             "The key file '" \o p \o "' does not exist")]
         ELSE IF "system" \in DOMAIN c1
         THEN IF c1.system.val \notin {"hohgant", "balfrin"}
              THEN [config |-> c1,
                    exc |-> Raise("FileNotFoundError",
                                  "The  system '" \o c1.system.val
                                      \o "' must be one of hohgant or balfrin")]
              ELSE [config |-> c1, exc |-> NoExc]
         ELSE IF hasKey
              THEN [config |-> c1,
                    exc |-> Raise("FileNotFoundError", "The  '" \o p \o "' does not exist")]
              ELSE [config |-> c1, exc |-> Raise("UnboundLocalError", wording)]

validate_recipe_config ==
    /\ calls = 0
    /\ \E wording \in UnboundLocalWordings :
        LET r == ValidateRecipeConfig(rawConfig, files, wording) IN
            /\ rawConfig' = r.config
            /\ exc' = r.exc
            /\ config' = IF r.exc = NoExc THEN PyDict(r.config) ELSE config
    /\ calls' = calls + 1
    /\ UNCHANGED <<raw, rawIn, packages, rawCompilers, compilers, files,
                   mirrorConfig, mirrorSource, mirror, returned>>
    /\ UNCHANGED initVars

(* The config mappings and file systems the call is made on *)

KeyPaths == {"/keys/sign.key", "/keys/old.key"}

MirrorSections ==
    {PyDict(Present([enable |-> e, key |-> k])) :
        e \in {Absent, PyBool(TRUE), PyBool(FALSE)},
        k \in {Absent} \cup {PyStr(path) : path \in KeyPaths}}

RawConfigs ==
    {Present([system |-> sys, mirror |-> m]) :
        sys \in {Absent, PyStr("hohgant"), PyStr("balfrin"), PyStr("daint")},
        m \in {Absent, PyNone} \cup MirrorSections}

---------------------------------------------------------------------------
(* Mirror *)

\* the object before __init__ has run
NoMirror == [type |-> "<unconstructed>"]

\* dict.get
Get(d, k, default) == IF k \in DOMAIN d THEN d[k] ELSE default

\* a slip: the enable flag is not consulted
MirrorInit_IgnoreEnable(cfg, source) ==
    IF Truthy(cfg)
    THEN [source |-> source, key |-> Get(cfg.val, "key", PyNone)]
    ELSE [source |-> PyNone, key |-> PyNone]

\* the _source and _key that __init__ assigns
MirrorInit(cfg, source) ==
    IF Truthy(cfg)
    THEN LET enabled == Get(cfg.val, "enable", PyBool(TRUE))
             key == Get(cfg.val, "key", PyNone)
         IN  [source |-> IF ~Truthy(enabled) THEN PyNone ELSE source, key |-> key]
    ELSE [source |-> PyNone, key |-> PyNone]

Mirror ==
    /\ calls = 0
    /\ mirror' = MirrorInit(mirrorConfig, mirrorSource)
    /\ calls' = calls + 1
    /\ UNCHANGED <<raw, rawIn, packages, rawCompilers, compilers, rawConfig, files,
                   config, mirrorConfig, mirrorSource, exc, returned>>
    /\ UNCHANGED initVars

(* The arguments Mirror is constructed with *)

MirrorConfigs ==
    {PyNone} \cup
    {PyDict(Present([enable |-> e, key |-> k])) :
        e \in {Absent, PyBool(TRUE), PyBool(FALSE), PyNone},
        k \in {Absent, PyNone, PyStr("/x"), PyStr("/keys/sign.key")}}

MirrorSources ==
    {PyNone, PyStr("/recipe/mirrors.yaml"),
     PyStr("/opt/sstool/share/cluster-config/hohgant/mirrors.yaml"),
     PyStr("/opt/sstool/share/cluster-config/balfrin/mirrors.yaml")}

---------------------------------------------------------------------------
(* Idle values of the parts a specification does not exercise *)

IdlePackages == raw = <<>> /\ rawIn = <<>> /\ packages = Unbound
IdleCompilers == rawCompilers = <<>> /\ compilers = <<>>
IdleConfig == rawConfig = <<>> /\ files = {} /\ config = PyNone
IdleMirror == mirrorConfig = PyNone /\ mirrorSource = PyNone /\ mirror = NoMirror
IdleCalls == exc = NoExc /\ calls = 0 /\ returned = <<>>
IdleInit ==
    /\ args = <<>> /\ dirs = {} /\ modules = PyNone /\ pc = "" /\ recipe = Unbound

---------------------------------------------------------------------------
(* generate_package_specs called, up to MaxCalls times, on one raw object *)

InitPackages ==
    /\ RawPackages(raw)
    /\ rawIn = <<>>
    /\ packages = Unbound
    /\ IdleCompilers /\ IdleConfig /\ IdleMirror /\ IdleCalls /\ IdleInit

NextPackages == generate_package_specs

SpecPackages == InitPackages /\ [][NextPackages]_vars

---------------------------------------------------------------------------
(* generate_compiler_specs called, up to MaxCalls times, on one raw object *)

InitCompilers ==
    /\ rawCompilers \in RawCompilers
    /\ compilers = <<>>
    /\ IdlePackages /\ IdleConfig /\ IdleMirror /\ IdleCalls /\ IdleInit

NextCompilers == generate_compiler_specs

SpecCompilers == InitCompilers /\ [][NextCompilers]_vars

---------------------------------------------------------------------------
(* validate_recipe_config called on a config mapping *)

InitConfig ==
    /\ rawConfig \in RawConfigs
    /\ files \in SUBSET KeyPaths
    /\ config = PyNone
    /\ IdlePackages /\ IdleCompilers /\ IdleMirror /\ IdleCalls /\ IdleInit

NextConfig == validate_recipe_config

SpecConfig == InitConfig /\ [][NextConfig]_vars

---------------------------------------------------------------------------
(* Mirror constructed from a config and a candidate source *)

InitMirror ==
    /\ mirrorConfig \in MirrorConfigs
    /\ mirrorSource \in MirrorSources
    /\ mirror = NoMirror
    /\ IdlePackages /\ IdleCompilers /\ IdleConfig /\ IdleCalls /\ IdleInit

NextMirror == Mirror

SpecMirror == InitMirror /\ [][NextMirror]_vars

---------------------------------------------------------------------------
(* Recipe.__init__, and main's recipe = Recipe(args) *)

\* os.path.join and os.path.isabs on POSIX paths without a trailing slash
join(a, b) == a \o "/" \o b
isabs(p) == startswith(p, "/")

\* os.path.abspath(os.path.curdir)
Cwd == "/work"

\* self.root: the directory above the one that holds main.py
Root == "/opt/sstool"

\* the local path once it has been made absolute
RecipeAbsPath(a) == IF isabs(a.recipe) THEN a.recipe ELSE join(Cwd, a.recipe)

configs_path(cfg) == join(join(join(Root, "share"), "cluster-config"), cfg.system.val)

\* a slip: the system configuration directory is looked at first
MirrorsSource_SystemFirst(path, cpath, isfile) ==
    IF join(cpath, "mirrors.yaml") \in isfile
    THEN PyStr(join(cpath, "mirrors.yaml"))
    ELSE IF join(path, "mirrors.yaml") \in isfile
    THEN PyStr(join(path, "mirrors.yaml"))
    ELSE PyNone

\* mirrors_source
MirrorsSource(path, cpath, isfile) ==
    LET recipe_mirrors == join(path, "mirrors.yaml")
        first == IF recipe_mirrors \in isfile THEN PyStr(recipe_mirrors) ELSE PyNone
    IN
    IF first = PyNone
    THEN LET system_mirrors == join(cpath, "mirrors.yaml") IN
         IF system_mirrors \in isfile THEN PyStr(system_mirrors) ELSE PyNone
    ELSE first

\* a slip: a stage that is not declared is skipped instead of being an error
CompilersLoaded_SkipUndeclared(doc) ==
    IF "compilers" \notin DOMAIN doc
    THEN [compilers |-> <<>>, exc |-> Raise("KeyError", "'compilers'")]
    ELSE LET r == CompilerSpecs(doc.compilers) IN
         IF r.exc.type = "KeyError" THEN [compilers |-> r.compilers, exc |-> NoExc] ELSE r

\* self.generate_compiler_specs(raw['compilers']) on the loaded document
CompilersLoaded(doc) ==
    IF "compilers" \notin DOMAIN doc
    THEN [compilers |-> <<>>, exc |-> Raise("KeyError", "'compilers'")]
    ELSE CompilerSpecs(doc.compilers)

\* self.generate_package_specs(raw['packages']) on the loaded document
PackagesLoaded(doc) ==
    IF "packages" \notin DOMAIN doc
    THEN [packages |-> <<>>, exc |-> Raise("KeyError", "'packages'")]
    ELSE ExpandMpi(AmendAll(doc.packages), 1)

\* the reference main holds once Recipe(args) has returned
RefSelf == [bound |-> TRUE, object |-> "Recipe"]

(* The command lines, file systems and documents Recipe is constructed on *)

Args == {[recipe |-> r, build |-> "/build"] : r \in {"/recipe", "stack"}}

RecipeFiles(a) ==
    {join(RecipeAbsPath(a), f) :
        f \in {"compilers.yaml", "packages.yaml", "config.yaml", "modules.yaml",
               "mirrors.yaml"}}

SystemFiles ==
    {join(configs_path([system |-> PyStr(sys)]), "mirrors.yaml") :
        sys \in {"hohgant", "balfrin"}}

CompilersYaml ==
    {<<>>} \cup
    {"compilers" :> Present([bootstrap |-> b, gcc |-> g, llvm |-> l]) :
        b \in {Absent, [specs |-> <<"gcc@11">>]},
        g \in {Absent, [specs |-> <<"gcc@11", "gcc@12">>]},
        l \in {Absent, [specs |-> <<"nvhpc@21.9">>, requires |-> "gcc@11"]}}

\* the package sets of the recipes
RecipeSets ==
    PackageSets({PyList(<<"hdf5", "fftw">>)},
                {PyNone, PyStr("mpich@3.4.3"), PyStr("openmpi")},
                {PyStr("nvidia")})

PackagesYaml ==
    {<<>>, "packages" :> Batch(<<>>)}
    \cup {"packages" :> Batch(<<c>>) : c \in RecipeSets}
    \cup {"packages" :> Batch(<<c, d>>) : c, d \in RecipeSets}

\* the path check and self.path, self.root
RecipePath ==
    /\ pc = "path" /\ exc = NoExc
    /\ LET path == RecipeAbsPath(args) IN
        IF path \notin dirs
        THEN /\ exc' = Raise("FileNotFoundError",
                             "The recipe path '" \o path \o "' does not exist")
             /\ pc' = pc
        ELSE /\ exc' = exc
             /\ pc' = "compilers"
    /\ UNCHANGED <<raw, rawIn, packages, rawCompilers, compilers, rawConfig, files, config,
                   mirrorConfig, mirrorSource, mirror, calls, returned,
                   args, dirs, modules, recipe>>

\* compilers.yaml: the file check, the load, generate_compiler_specs
RecipeCompilers ==
    /\ pc = "compilers" /\ exc = NoExc
    /\ LET compiler_path == join(RecipeAbsPath(args), "compilers.yaml") IN
        IF compiler_path \notin files
        THEN /\ exc' = Raise("FileNotFoundError",
                             "The recipe path '" \o compiler_path
                                 \o "' does not contain compilers.yaml")
             /\ UNCHANGED <<rawCompilers, compilers, pc>>
        ELSE \E doc \in CompilersYaml :
                LET r == CompilersLoaded(doc) IN
                    /\ rawCompilers' =
                          IF "compilers" \in DOMAIN doc THEN doc.compilers ELSE rawCompilers
                    /\ exc' = r.exc
                    /\ compilers' = IF r.exc = NoExc THEN r.compilers ELSE compilers
                    /\ pc' = IF r.exc = NoExc THEN "packages" ELSE pc
    /\ UNCHANGED <<raw, rawIn, packages, rawConfig, files, config,
                   mirrorConfig, mirrorSource, mirror, calls, returned,
                   args, dirs, modules, recipe>>

\* packages.yaml: the file check, the load, generate_package_specs
RecipePackages ==
    /\ pc = "packages" /\ exc = NoExc
    /\ LET packages_path == join(RecipeAbsPath(args), "packages.yaml") IN
        IF packages_path \notin files
        THEN /\ exc' = Raise("FileNotFoundError",
                             "The recipe path '" \o packages_path
                                 \o "' does not contain packages.yaml")
             /\ UNCHANGED <<raw, rawIn, packages, pc>>
        ELSE \E doc \in PackagesYaml :
                LET r == PackagesLoaded(doc) IN
                    /\ rawIn' = IF "packages" \in DOMAIN doc THEN doc.packages ELSE rawIn
                    /\ raw' = IF "packages" \in DOMAIN doc THEN r.packages ELSE raw
                    /\ exc' = r.exc
                    /\ packages' = IF r.exc = NoExc THEN RefRaw ELSE packages
                    /\ pc' = IF r.exc = NoExc THEN "config" ELSE pc
    /\ UNCHANGED <<rawCompilers, compilers, rawConfig, files, config,
                   mirrorConfig, mirrorSource, mirror, calls, returned,
                   args, dirs, modules, recipe>>

\* config.yaml: the file check, the load, validate_recipe_config
RecipeConfig ==
    /\ pc = "config" /\ exc = NoExc
    /\ LET config_path == join(RecipeAbsPath(args), "config.yaml") IN
        IF config_path \notin files
        THEN /\ exc' = Raise("FileNotFoundError",
                             "The recipe path '" \o config_path
                                 \o "' does not contain compilers.yaml")
             /\ UNCHANGED <<rawConfig, config, pc>>
        ELSE \E doc \in RawConfigs, wording \in UnboundLocalWordings :
                LET r == ValidateRecipeConfig(doc, files, wording) IN
                    /\ rawConfig' = r.config
                    /\ exc' = r.exc
                    /\ config' = IF r.exc = NoExc THEN PyDict(r.config) ELSE config
                    /\ pc' = IF r.exc = NoExc THEN "mirror" ELSE pc
    /\ UNCHANGED <<raw, rawIn, packages, rawCompilers, compilers, files,
                   mirrorConfig, mirrorSource, mirror, calls, returned,
                   args, dirs, modules, recipe>>

\* self.modules, the choice of mirrors.yaml, and self._mirror
RecipeMirror ==
    /\ pc = "mirror" /\ exc = NoExc
    /\ LET path == RecipeAbsPath(args)
           modules_path == join(path, "modules.yaml")
           mirrors_source == MirrorsSource(path, configs_path(config.val), files)
       IN
        /\ modules' = IF modules_path \in files
                      THEN PyStr(modules_path)
                      ELSE PyStr(join(args.build, "spack/etc/spack/defaults/modules.yaml"))
        /\ mirrorConfig' = config.val.mirror
        /\ mirrorSource' = mirrors_source
        /\ mirror' = MirrorInit(config.val.mirror, mirrors_source)
    /\ pc' = "return"
    /\ UNCHANGED <<raw, rawIn, packages, rawCompilers, compilers, rawConfig, files, config,
                   exc, calls, returned, args, dirs, recipe>>

\* main: Recipe(args) has returned and its value is bound to recipe
main ==
    /\ pc = "return" /\ exc = NoExc
    /\ recipe' = RefSelf
    /\ pc' = "done"
    /\ UNCHANGED <<raw, rawIn, packages, rawCompilers, compilers, rawConfig, files, config,
                   mirrorConfig, mirrorSource, mirror, exc, calls, returned,
                   args, dirs, modules>>

\* the state when Recipe(args) is entered: the class attributes compilers and
\* config are empty mappings, and a directory that does not exist holds no file
Init ==
    /\ args \in Args
    /\ dirs \in SUBSET {RecipeAbsPath(args)}
    /\ \E inRecipe \in SUBSET RecipeFiles(args), elsewhere \in SUBSET (SystemFiles \cup KeyPaths) :
        /\ dirs = {} => inRecipe = {}
        /\ files = inRecipe \cup elsewhere
    /\ pc = "path"
    /\ recipe = Unbound
    /\ modules = PyNone
    /\ compilers = <<>>
    /\ config = PyDict(<<>>)
    /\ rawCompilers = <<>> /\ rawConfig = <<>>
    /\ IdlePackages /\ IdleMirror /\ IdleCalls

Next ==
    \/ RecipePath
    \/ RecipeCompilers
    \/ RecipePackages
    \/ RecipeConfig
    \/ RecipeMirror
    \/ main

Spec == Init /\ [][Next]_vars

---------------------------------------------------------------------------
(* Properties of generate_package_specs *)

MpiTable == {"cray-mpich-binary", "mpich", "mvapich2"}

Succeeded == calls >= 1 /\ exc = NoExc
Failed == calls >= 1 /\ exc # NoExc

Sets == 1..Len(rawIn)

\* the fields of package set i as the call received them
InMpi(i) == IF "mpi" \in DOMAIN rawIn[i].config THEN rawIn[i].config.mpi ELSE PyNone
InGpu(i) == IF "gpu" \in DOMAIN rawIn[i].config THEN rawIn[i].config.gpu ELSE PyNone
InSpecs(i) ==
    IF "specs" \in DOMAIN rawIn[i].config /\ rawIn[i].config.specs # PyNone
    THEN rawIn[i].config.specs.val
    ELSE <<>>

\* the specs of package set i as the call left them, and the last of them
OutSpecs(i) == raw[i].config.specs.val
Appended(i) == OutSpecs(i)[Len(OutSpecs(i))]

\* package set i names implementation n, with or without a version
Names(i, n) ==
    /\ InMpi(i).type = "str"
    /\ \/ InMpi(i).val \in Unversioned(n)
       \/ \E v \in MpiVersions : InMpi(i).val \in Versioned(n, v)

\* what follows the implementation name in a spec, up to the first blank
VersionClause(spec, n) ==
    LET rest == SubSeq(spec, Len(n) + 1, Len(spec))
        b == find(rest, " ")
    IN  IF b = 0 THEN rest ELSE SubSeq(rest, 1, b - 1)

\* C1 as stated: for every mpi string "<impl>@<ver>" with impl in the table and
\* for every ver, the appended spec has the version clause "@<ver>" directly
\* after the implementation name.
C1_EveryVersionOverrides ==
    Succeeded =>
        \A i \in Sets, n \in MpiTable, v \in MpiVersions, rp \in Pads :
            InMpi(i) = PyStr(n \o "@" \o v \o rp) =>
                /\ startswith(Appended(i), n)
                /\ VersionClause(Appended(i), n) = "@" \o v \o rp

\* C1 amended: for every mpi string "<impl>@<ver>" with impl in the table and
\* ver not empty (whitespace around the mpi string not counted), the appended
\* spec has the version clause "@<ver>" directly after the implementation name;
\* with an empty ver the table default is used, as when no version is given.
C1_NonEmptyVersionOverrides ==
    Succeeded =>
        \A i \in Sets, n \in MpiTable, v \in MpiVersions :
            (InMpi(i).type = "str" /\ InMpi(i).val \in Versioned(n, v)) =>
                /\ startswith(Appended(i), n)
                /\ v # "" => VersionClause(Appended(i), n) = "@" \o v
                /\ v = "" =>
                      VersionClause(Appended(i), n) =
                          (CASE n = "mpich" -> "@4.1rc2"
                             [] n = "mvapich2" -> "@3.0a"
                             [] n = "cray-mpich-binary" -> "")

C1_Witness ==
    /\ Succeeded
    /\ \E i \in Sets :
          /\ InMpi(i) = PyStr("mvapich2@3.4.3")
          /\ VersionClause(Appended(i), "mvapich2") = "@3.4.3"

\* the spec the table gives an implementation named without a version
DefaultSpec(n) ==
    CASE n = "cray-mpich-binary" -> "cray-mpich-binary"
      [] n = "mpich" -> "mpich@4.1rc2 device=ch4 netmod=ofi +slurm"
      [] n = "mvapich2" ->
            "mvapich2@3.0a +xpmem fabrics=ch4ofi ch4_max_vcis=4 process_managers=slurm"

GpuClause(i, n) ==
    IF Truthy(InGpu(i)) /\ n # "cray-mpich-binary" THEN " cuda_arch=80" ELSE ""

\* C2: an mpi string naming a table implementation without a version resolves
\* to "<impl>@<default_version> <options>", with no version clause when the
\* default is null and no blank at either end when the options are empty (and
\* the gpu clause of C3 after it): "mpich" gives exactly
\* "mpich@4.1rc2 device=ch4 netmod=ofi +slurm", "cray-mpich-binary" gives
\* exactly "cray-mpich-binary".
C2_DefaultSpec ==
    Succeeded =>
        \A i \in Sets, n \in MpiTable :
            (InMpi(i).type = "str" /\ InMpi(i).val \in Unversioned(n)) =>
                Appended(i) = DefaultSpec(n) \o GpuClause(i, n)

C2_Witness ==
    /\ Succeeded
    /\ \E i \in Sets :
          /\ InMpi(i) = PyStr("cray-mpich-binary")
          /\ OutSpecs(i) = <<"cray-mpich-binary">>

\* C3: the appended spec ends with " cuda_arch=80" if and only if gpu is truthy
\* and the implementation is not cray-mpich-binary; otherwise it holds no
\* cuda_arch clause at all.
C3_CudaArchIff ==
    Succeeded =>
        \A i \in Sets, n \in MpiTable :
            Names(i, n) =>
                /\ endswith(Appended(i), " cuda_arch=80")
                      <=> (Truthy(InGpu(i)) /\ n # "cray-mpich-binary")
                /\ ~(Truthy(InGpu(i)) /\ n # "cray-mpich-binary")
                      => ~contains(Appended(i), "cuda_arch")

C3_Witness ==
    /\ Succeeded
    /\ \E i \in Sets :
          /\ Names(i, "cray-mpich-binary")
          /\ Truthy(InGpu(i))
          /\ ~contains(Appended(i), "cuda_arch")

\* C4 as stated: when a package set of the batch names an implementation that
\* is not in the table, the call fails with the unsupported-MPI error, no
\* result is bound, and no package set, before or after the offending one, has
\* an MPI spec appended.
C4_AllOrNothing ==
    (calls >= 1 /\ \E i \in Sets : Names(i, "openmpi")) =>
        /\ exc = Raise("Exception", "Unsupported mpi: openmpi")
        /\ packages = Unbound
        /\ \A i \in Sets : OutSpecs(i) = InSpecs(i)

\* C5 as stated: a second call on the same raw description yields spec
\* sequences equal, element by element and in order, to those of the first.
C5_SecondCallEqual ==
    (calls = 2 /\ returned[1].exc = NoExc /\ returned[2].exc = NoExc) =>
        returned[2].value = returned[1].value

\* C6 as stated: after a successful call every package set has a specs
\* sequence; a set whose mpi is non-null has its declared specs, in order,
\* followed by exactly one MPI spec; a set whose mpi is null has exactly its
\* declared specs.
C6_NonNullMpiExpanded ==
    Succeeded =>
        \A i \in Sets :
            /\ raw[i].config.specs.type = "list"
            /\ InMpi(i) = PyNone => OutSpecs(i) = InSpecs(i)
            /\ InMpi(i) # PyNone =>
                  /\ Len(OutSpecs(i)) = Len(InSpecs(i)) + 1
                  /\ SubSeq(OutSpecs(i), 1, Len(InSpecs(i))) = InSpecs(i)
                  /\ \E n \in MpiTable : Names(i, n) /\ startswith(Appended(i), n)

\* C6 amended: after a successful call every package set has a specs sequence
\* (empty when specs was missing or null); a set whose mpi is neither null nor
\* the empty string has its declared specs, in order, followed by exactly one
\* MPI spec; a set whose mpi is null or empty has exactly its declared specs.
C6_TruthyMpiExpanded ==
    Succeeded =>
        \A i \in Sets :
            /\ raw[i].config.specs.type = "list"
            /\ ~Truthy(InMpi(i)) => OutSpecs(i) = InSpecs(i)
            /\ Truthy(InMpi(i)) =>
                  /\ Len(OutSpecs(i)) = Len(InSpecs(i)) + 1
                  /\ SubSeq(OutSpecs(i), 1, Len(InSpecs(i))) = InSpecs(i)
                  /\ \E n \in MpiTable : Names(i, n) /\ startswith(Appended(i), n)

C6_Witness ==
    /\ Succeeded
    /\ Len(rawIn) >= 2
    /\ \E i \in Sets :
          /\ InSpecs(i) = <<"hdf5", "fftw">>
          /\ Names(i, "mpich")
          /\ Len(OutSpecs(i)) = 3
    /\ \E i \in Sets : InMpi(i) = PyNone /\ OutSpecs(i) = <<>>

---------------------------------------------------------------------------
(* Properties of Mirror *)

Constructed == mirror # NoMirror

\* C7 as stated: for every non-null mirror configuration, a mapping with no
\* keys included, enabled is the enable entry (true when absent), the source is
\* the candidate when enabled and null otherwise, and the key is the key entry
\* (null when absent) whatever enabled is.
C7_MirrorFromConfig ==
    (Constructed /\ mirrorConfig # PyNone) =>
        LET enabled == IF "enable" \in DOMAIN mirrorConfig.val
                       THEN mirrorConfig.val.enable ELSE PyBool(TRUE)
        IN  /\ mirror.source = (IF Truthy(enabled) THEN mirrorSource ELSE PyNone)
            /\ mirror.key = (IF "key" \in DOMAIN mirrorConfig.val
                             THEN mirrorConfig.val.key ELSE PyNone)

\* C8: a null configuration gives (source = null, key = null); {enable: false}
\* gives source = null whatever the candidate; {enable: true, key: "/x"} with
\* a non-null candidate gives (source = candidate, key = "/x").
C8_MirrorCases ==
    Constructed =>
        /\ mirrorConfig = PyNone => (mirror.source = PyNone /\ mirror.key = PyNone)
        /\ mirrorConfig = PyDict([enable |-> PyBool(FALSE)]) => mirror.source = PyNone
        /\ (/\ mirrorConfig = PyDict([enable |-> PyBool(TRUE), key |-> PyStr("/x")])
            /\ mirrorSource # PyNone)
              => (mirror.source = mirrorSource /\ mirror.key = PyStr("/x"))

C8_Witness ==
    /\ Constructed
    /\ mirrorConfig = PyDict([enable |-> PyBool(FALSE)])
    /\ mirrorSource = PyStr("/recipe/mirrors.yaml")
    /\ mirror.source = PyNone

---------------------------------------------------------------------------
(* Properties of generate_compiler_specs *)

\* what the llvm stage is to hold for a declared spec
ExpectedLlvm(spec) ==
    IF startswith(spec, "nvhpc") THEN spec \o "~mpi~blas~lapack"
    ELSE IF startswith(spec, "llvm") THEN spec \o " +clang targets=x86 ~gold ^ninja@kitware"
    ELSE spec

\* C9 as stated: the resolved llvm specs hold, at the position of every declared
\* spec, that spec with the nvhpc or llvm suffix appended, or unmodified for any
\* other prefix: same length, same order.
C9_LlvmSpecsPositional ==
    (Succeeded /\ "llvm" \in DOMAIN rawCompilers) =>
        /\ Len(compilers.llvm.specs) = Len(rawCompilers.llvm.specs)
        /\ \A k \in 1..Len(rawCompilers.llvm.specs) :
              compilers.llvm.specs[k] = ExpectedLlvm(rawCompilers.llvm.specs[k])

\* C12: the resolved bootstrap stage has exactly two specs: the first declared
\* bootstrap spec with " languages=c,c++" appended, then the fixed spec
\* "squashfs default_compression=zstd".
C12_BootstrapSpecs ==
    Succeeded =>
        /\ Len(compilers.bootstrap.specs) = 2
        /\ compilers.bootstrap.specs[1] = rawCompilers.bootstrap.specs[1] \o " languages=c,c++"
        /\ endswith(compilers.bootstrap.specs[1], "languages=c,c++")
        /\ compilers.bootstrap.specs[2] = "squashfs default_compression=zstd"

C12_Witness ==
    /\ Succeeded
    /\ rawCompilers.bootstrap.specs = <<"gcc@11.3.0", "gcc@12">>
    /\ compilers.bootstrap.specs =
          <<"gcc@11.3.0 languages=c,c++", "squashfs default_compression=zstd">>

\* C13: the gcc stage requires the first declared bootstrap spec as declared,
\* without the languages suffix, and its specs are the raw gcc specs unchanged.
C13_GccRequiresBootstrap ==
    Succeeded =>
        /\ compilers.gcc.requires = rawCompilers.bootstrap.specs[1]
        /\ compilers.gcc.specs = rawCompilers.gcc.specs

C13_Witness ==
    /\ Succeeded
    /\ compilers.gcc.requires = "gcc@11.3.0"
    /\ compilers.bootstrap.specs[1] = "gcc@11.3.0 languages=c,c++"
    /\ compilers.gcc.specs = <<"gcc@11", "gcc@12">>

---------------------------------------------------------------------------
(* Properties of validate_recipe_config *)

\* C10 as stated: a config without a system field makes the call raise an error
\* whose message names the system field, with or without a mirror section or
\* a mirror key.
C10_MissingSystemNamed ==
    (calls >= 1 /\ "system" \notin DOMAIN rawConfig) =>
        /\ exc # NoExc
        /\ contains(exc.msg, "system")

\* the config names a key file: it has a mirror section that holds a key
NamesKey(cfg) ==
    /\ "mirror" \in DOMAIN cfg
    /\ cfg.mirror.type = "dict"
    /\ "key" \in DOMAIN cfg.mirror.val

\* system is present and one of the supported systems, and the key file, when
\* one is named, exists
ValidConfig(cfg) ==
    /\ "system" \in DOMAIN cfg
    /\ cfg.system \in {PyStr("hohgant"), PyStr("balfrin")}
    /\ NamesKey(cfg) => cfg.mirror.val.key.val \in files

\* C11 as stated: the call returns the config if and only if system is present
\* and supported and the key file, when a mirror section names one, exists;
\* otherwise it raises; a config without a mirror section is returned with
\* mirror set to null.
C11_ReturnsIffValid ==
    calls >= 1 =>
        /\ exc = NoExc <=> ValidConfig(rawConfig)
        /\ exc = NoExc =>
              /\ config = PyDict(rawConfig)
              /\ "mirror" \in DOMAIN rawConfig

---------------------------------------------------------------------------
(* Properties of Recipe.__init__ *)

RequiredFiles == {"compilers.yaml", "packages.yaml", "config.yaml"}

\* the position at which the constructor opens the file, and the positions
\* behind it
StepOf(f) ==
    CASE f = "compilers.yaml" -> "compilers"
      [] f = "packages.yaml" -> "packages"
      [] f = "config.yaml" -> "config"

Behind(f) ==
    CASE f = "compilers.yaml" -> {"packages", "config", "mirror", "return", "done"}
      [] f = "packages.yaml" -> {"config", "mirror", "return", "done"}
      [] f = "config.yaml" -> {"mirror", "return", "done"}

InRecipe(f) == RecipeAbsPath(args) \o "/" \o f \in files

\* C14 as stated: the constructor does not get past a required file that is
\* missing from the recipe directory, and the error it raises for it says that
\* the directory does not contain that very file.
C14_MissingFileNamed ==
    \A f \in RequiredFiles :
        ~InRecipe(f) =>
            /\ pc \notin Behind(f)
            /\ recipe = Unbound
            /\ (pc = StepOf(f) /\ exc # NoExc) =>
                  /\ exc.type = "FileNotFoundError"
                  /\ endswith(exc.msg, "does not contain " \o f)

\* C15: main holds a Recipe only when all four steps have succeeded on
\* documents that declare both the bootstrap and the gcc stage; once a step has
\* raised, no Recipe is bound; and self.compilers never holds the bootstrap
\* stage without the gcc stage.
C15_AllOrNothing ==
    /\ recipe # Unbound =>
          /\ exc = NoExc
          /\ {"bootstrap", "gcc"} \subseteq DOMAIN rawCompilers
          /\ {"bootstrap", "gcc"} \subseteq DOMAIN compilers
          /\ packages = RefRaw
          /\ \A i \in 1..Len(raw) :
                (raw[i].config.mpi # PyNone /\ raw[i].config.mpi.val # "")
                    => Len(raw[i].config.specs.val) = Len(rawIn[i].config.specs.val) + 1
          /\ config.type = "dict"
          /\ {"system", "mirror"} \subseteq DOMAIN config.val
          /\ config.val.system \in {PyStr("hohgant"), PyStr("balfrin")}
          /\ mirror # NoMirror
    /\ exc # NoExc => recipe = Unbound /\ pc \notin {"return", "done"}
    /\ "bootstrap" \in DOMAIN compilers <=> "gcc" \in DOMAIN compilers
    /\ packages # Unbound => pc \in Behind("packages.yaml")
    /\ config # PyDict(<<>>) => pc \in Behind("config.yaml")
    /\ mirror # NoMirror => pc \in {"return", "done"}

C15_Witness ==
    /\ recipe = RefSelf
    /\ DOMAIN compilers = {"bootstrap", "gcc", "llvm"}
    /\ Len(raw) = 2
    /\ raw[2].config.specs = PyList(<<"hdf5", "fftw", "mpich@3.4.3 device=ch4 netmod=ofi +slurm cuda_arch=80">>)
    /\ mirror.source # PyNone

\* the mirror section of the validated config switches mirroring off
MirroringDisabled ==
    /\ config.val.mirror.type = "dict"
    /\ "enable" \in DOMAIN config.val.mirror.val
    /\ config.val.mirror.val.enable = PyBool(FALSE)

\* C16: the candidate handed to Mirror is the recipe directory's mirrors.yaml if
\* that file exists, else the system configuration directory's mirrors.yaml if
\* that exists, else null; and the mirror's source is non-null only if one of
\* the two files exists and the recipe did not disable mirroring.
C16_MirrorCandidate ==
    pc \in {"return", "done"} =>
        LET recipe_level == RecipeAbsPath(args) \o "/mirrors.yaml"
            system_level == "/opt/sstool/share/cluster-config/"
                                \o config.val.system.val \o "/mirrors.yaml"
        IN
        /\ mirrorSource = IF recipe_level \in files THEN PyStr(recipe_level)
                          ELSE IF system_level \in files THEN PyStr(system_level)
                          ELSE PyNone
        /\ mirror.source # PyNone =>
              /\ recipe_level \in files \/ system_level \in files
              /\ ~MirroringDisabled
              /\ mirror.source = mirrorSource

C16_Witness ==
    /\ pc = "done"
    /\ args.recipe = "stack"
    /\ config.val.system = PyStr("balfrin")
    /\ {"/work/stack/mirrors.yaml",
        "/opt/sstool/share/cluster-config/balfrin/mirrors.yaml"} \subseteq files
    /\ mirror.source = PyStr("/work/stack/mirrors.yaml")

=============================================================================
